---- MODULE Spec2Model ----
(***************************************************************************)
(* OBS countdown timer (src/main.py): the timer loop of run_timer, the     *)
(* pynput key handler on_press running on the listener thread, the pure    *)
(* function format_time, and the top-level exception handling of main.     *)
(*                                                                         *)
(* Time.  The wall clock is the integer variable clock, counted in units   *)
(* of 1/TicksPerSecond second since today's local midnight.  A datetime is *)
(* a clock value, a timedelta's total_seconds() a difference of clock      *)
(* values.  int(x) of a number of seconds is IntSeconds of the units.      *)
(*                                                                         *)
(* Threads.  The timer loop (main thread) and on_press (listener thread)   *)
(* share TimerState without any lock; each action below is one step whose  *)
(* reads and writes of shared fields cannot be split further by a thread   *)
(* switch in a way another thread can observe.  pc is the line of main.py  *)
(* the timer loop is about to execute, lpc that of the listener thread.    *)
(*                                                                         *)
(* Not modelled: the run without pynput (no listener, no key events), the  *)
(* interactive prompt of show_tui, a date_str other than None, and Ctrl-C  *)
(* (the KeyboardInterrupt branch of main).                                 *)
(***************************************************************************)
EXTENDS Integers, Sequences, FiniteSets, TLC

\* ---------------------------------------------------------------- bounds
TicksPerSecond == 2
MaxTime == 4
MaxKeys == 3
MaxDuration == 1
MaxFmtHours == 101

\* None of Python, for the fields that hold a datetime or an exit code.
None == -1

\* ------------------------------------------------------------ format_time
Digit(d) ==
    CASE d = 0 -> "0" [] d = 1 -> "1" [] d = 2 -> "2" [] d = 3 -> "3"
      [] d = 4 -> "4" [] d = 5 -> "5" [] d = 6 -> "6" [] d = 7 -> "7"
      [] d = 8 -> "8" [] d = 9 -> "9"

\* str(n) / f"{n}" for n >= 0, as the sequence of its characters.
RECURSIVE Str(_)
Str(n) == IF n < 10 THEN <<Digit(n)>> ELSE Str(n \div 10) \o <<Digit(n % 10)>>

\* f"{n:02d}" for n >= 0: at least two digits, zero-filled on the left.
Fmt02d_unpadded(n) == Str(n)
Fmt02d(n) == IF n < 10 THEN <<"0">> \o Str(n) ELSE Str(n)

\* f"{n}" for n >= 0: the leading field of lines 82, 84 and 90, never filled.
FmtD_padded(n) == IF n < 10 THEN <<"0">> \o Str(n) ELSE Str(n)
FmtD(n) == Str(n)

format_time(total_seconds, display_mode) ==
    LET ts      == IF total_seconds < 0 THEN 0 ELSE total_seconds
        hours   == ts \div 3600
        minutes == (ts % 3600) \div 60
        seconds == ts % 60
    IN  IF display_mode = 0
        THEN IF hours > 0
             THEN FmtD(hours) \o <<":">> \o Fmt02d(minutes) \o <<":">> \o Fmt02d(seconds)
             ELSE IF minutes > 0
                  THEN FmtD(minutes) \o <<":">> \o Fmt02d(seconds)
                  ELSE Str(seconds)
        ELSE IF display_mode = 1
        THEN IF hours > 0
             THEN FmtD(hours) \o <<":">> \o Fmt02d(minutes) \o <<":">> \o Fmt02d(seconds)
             ELSE IF minutes > 0
                  THEN Fmt02d(minutes) \o <<":">> \o Fmt02d(seconds)
                  ELSE Fmt02d(seconds)
        ELSE Fmt02d(hours) \o <<":">> \o Fmt02d(minutes) \o <<":">> \o Fmt02d(seconds)

\* -------------------------------------------------------------- parse_time
\* A time string is modelled by the integers of its ':'-separated parts.
parse_time_raises(time_str) ==
    \/ Len(time_str) = 2 /\ time_str[2] >= 60
    \/ Len(time_str) = 3 /\ (time_str[2] >= 60 \/ time_str[3] >= 60)
    \/ Len(time_str) \notin {1, 2, 3}

parse_time(time_str) ==
    IF Len(time_str) = 1 THEN time_str[1]
    ELSE IF Len(time_str) = 2 THEN time_str[1] * 60 + time_str[2]
    ELSE time_str[1] * 3600 + time_str[2] * 60 + time_str[3]

\* parse_date(None): today at 00:00:00, the origin of clock.
parse_date == 0

\* int(x) of x seconds given in clock units: truncation toward zero.
IntSeconds(u) ==
    IF u >= 0 THEN u \div TicksPerSecond ELSE -((-u) \div TicksPerSecond)

Max(a, b) == IF a >= b THEN a ELSE b

\* ------------------------------------------------------------------ state
VARIABLES
    \* TimerState (class TimerState)
    running, paused, restart_requested, quit_requested, awaiting_confirm,
    pause_start, total_paused,
    \* arguments of run_timer
    mode, time_str, display,
    \* locals of run_timer and the line it is at
    pc, target_time, duration, start_time, now,
    \* content of OUTPUT.txt and the exit code of the process
    output_file, exit_code,
    \* on_press on the listener thread: its line and its temporaries
    lpc, l_now, l_sum,
    \* the wall clock, and whether it advanced since the loop last slept
    clock, ticked,
    \* history: key events delivered, the last key, cycles started, the values
    \* handed to format_time and written in this cycle, the state at the last pause
    nkeys, lastKey, cycle, pubs, snap,
    \* one call of format_time: its arguments, its result, whether it returned
    fmt_seconds, fmt_mode, fmt_out, fmt_done

state == <<running, paused, restart_requested, quit_requested, awaiting_confirm,
           pause_start, total_paused>>
config == <<mode, time_str, display>>
locals == <<target_time, duration, start_time, now>>
listener == <<lpc, l_now, l_sum>>
history == <<nkeys, lastKey, cycle, pubs, snap>>
call == <<fmt_seconds, fmt_mode, fmt_out, fmt_done>>
timer == <<state, config, pc, locals, output_file, exit_code, listener, clock,
           ticked, history>>
vars == <<timer, call>>

Keys == {"y", "n", "r", "p", "q", "x"}
TimeStrs == {<<d>> : d \in 0..MaxDuration}
BadTimeStrs == {<<0, 60>>, <<1, 2, 3, 4>>}

\* history: no pause recorded
NoSnap == [t0 |-> None, t1 |-> None, tp |-> 0, start |-> None, target |-> None,
           done |-> FALSE]

\* TimerState.__init__, and run_timer up to line 163 (the listener started, the
\* first test of line 162 passed).
TimerInit ==
    /\ running = TRUE
    /\ paused = FALSE
    /\ restart_requested = FALSE
    /\ quit_requested = FALSE
    /\ awaiting_confirm = "none"
    /\ pause_start = None
    /\ total_paused = 0
    /\ pc = "l163"
    /\ target_time = None /\ duration = None /\ start_time = None /\ now = None
    /\ output_file = <<>>
    /\ exit_code = None
    /\ lpc = "idle" /\ l_now = None /\ l_sum = 0
    /\ clock = 0
    /\ ticked = FALSE
    /\ nkeys = 0 /\ lastKey = "none" /\ cycle = 0 /\ pubs = <<>>
    /\ snap = NoSnap

\* The arguments of run_timer: each timer mode, with a display format (the
\* pairs of the end-to-end scenarios, and format 1 for mode 0) and every
\* parseable time string; show_tui passes "0" in mode 2.
Configs == {<<0, 1>>, <<1, 0>>, <<2, 2>>}

NoCall == fmt_seconds = 0 /\ fmt_mode = 0 /\ fmt_out = <<>> /\ fmt_done = FALSE

Init ==
    /\ \E c \in Configs : mode = c[1] /\ display = c[2]
    /\ time_str \in (IF mode = 2 THEN {<<0>>} ELSE TimeStrs)
    /\ TimerInit
    /\ NoCall

\* ------------------------------------------------------------ the wall clock
\* The loop sleeps 0.1 s per iteration, and a clock unit is longer than one
\* iteration: the clock advances at most once between two sleeps of the loop,
\* at any point between them.
Tick ==
    /\ clock < MaxTime
    /\ ~ticked
    /\ pc # "exit"
    /\ clock' = clock + 1
    /\ ticked' = TRUE
    /\ UNCHANGED <<state, config, call, pc, locals, output_file, exit_code, listener, history>>

\* ------------------------------------------------------------ run_timer
\* line 163 as it would be if the reset also dropped a pending confirmation
Loop_l163_dropsConfirm ==
    /\ pc = "l163"
    /\ restart_requested' = FALSE
    /\ awaiting_confirm' = "none"
    /\ cycle' = cycle + 1
    /\ pubs' = <<>>
    /\ snap' = NoSnap
    /\ pc' = "l164"
    /\ UNCHANGED <<running, paused, quit_requested, pause_start,
                   total_paused, config, call, locals, output_file, exit_code, listener,
                   clock, ticked, nkeys, lastKey>>

\* line 163: state.restart_requested = False (a new cycle starts)
Loop_l163 ==
    /\ pc = "l163"
    /\ restart_requested' = FALSE
    /\ cycle' = cycle + 1
    /\ pubs' = <<>>
    /\ snap' = NoSnap
    /\ pc' = "l164"
    /\ UNCHANGED <<running, paused, quit_requested, awaiting_confirm, pause_start,
                   total_paused, config, call, locals, output_file, exit_code, listener,
                   clock, ticked, nkeys, lastKey>>

\* line 164: state.total_paused = 0
Loop_l164 ==
    /\ pc = "l164"
    /\ total_paused' = 0
    /\ pc' = "l165"
    /\ UNCHANGED <<running, paused, restart_requested, quit_requested,
                   awaiting_confirm, pause_start, config, call, locals, output_file,
                   exit_code, listener, clock, ticked, history>>

\* line 165: state.pause_start = None
Loop_l165 ==
    /\ pc = "l165"
    /\ pause_start' = None
    /\ pc' = "l166"
    /\ UNCHANGED <<running, paused, restart_requested, quit_requested,
                   awaiting_confirm, total_paused, config, call, locals, output_file,
                   exit_code, listener, clock, ticked, history>>

\* line 166: state.paused = False
Loop_l166 ==
    /\ pc = "l166"
    /\ paused' = FALSE
    /\ pc' = "l169"
    /\ UNCHANGED <<running, restart_requested, quit_requested, awaiting_confirm,
                   pause_start, total_paused, config, call, locals, output_file,
                   exit_code, listener, clock, ticked, history>>

\* lines 169-182: the cycle's anchor; parse_time may raise ValueError, which
\* leaves run_timer for the except clause of main (line 353). The time strings
\* of Init all parse; those of FaultInit need not.
Loop_l169 ==
    /\ pc = "l169"
    /\ IF mode \in {0, 1} /\ parse_time_raises(time_str)
       THEN /\ pc' = "l353"
            /\ UNCHANGED locals
       ELSE /\ pc' = "l184"
            /\ IF mode = 0
               THEN /\ target_time' = (parse_date + parse_time(time_str)) * TicksPerSecond
                    /\ UNCHANGED <<duration, start_time>>
               ELSE IF mode = 1
               THEN /\ duration' = parse_time(time_str) * TicksPerSecond
                    /\ start_time' = clock
                    /\ UNCHANGED target_time
               ELSE /\ start_time' = clock
                    /\ UNCHANGED <<target_time, duration>>
            /\ UNCHANGED now
    /\ UNCHANGED <<state, config, call, output_file, exit_code, listener, clock, ticked,
                   history>>

\* line 184: not state.quit_requested and not state.restart_requested
KeepTicking_unlessRestart == ~restart_requested
KeepTicking_unlessQuit == ~quit_requested
KeepTicking == ~quit_requested /\ ~restart_requested

\* line 184: while not state.quit_requested and not state.restart_requested
Loop_l184 ==
    /\ pc = "l184"
    /\ pc' = IF KeepTicking THEN "l185" ELSE "l219"
    /\ UNCHANGED <<state, config, call, locals, output_file, exit_code, listener, clock,
                   ticked, history>>

\* line 185: if state.paused and mode != 0
PausedSkip_anyMode == paused
PausedSkip_fromDurationOnly == paused /\ mode = 1
PausedSkip == paused /\ mode # 0

\* lines 185-188: when paused (except mode 0) time.sleep(0.1) and continue
Loop_l185 ==
    /\ pc = "l185"
    /\ IF PausedSkip
       THEN /\ pc' = "l184"
            /\ ticked' = FALSE
       ELSE /\ pc' = "l190"
            /\ UNCHANGED ticked
    /\ UNCHANGED <<state, config, call, locals, output_file, exit_code, listener, clock,
                   history>>

\* line 190: now = datetime.now()
Loop_l190 ==
    /\ pc = "l190"
    /\ now' = clock
    /\ pc' = "l192"
    /\ UNCHANGED <<state, config, call, target_time, duration, start_time, output_file,
                   exit_code, listener, clock, ticked, history>>

\* lines 193, 201-202: remaining, in clock units (modes 0 and 1)
Elapsed == (now - start_time) - total_paused
Remaining == IF mode = 0 THEN target_time - now ELSE duration - Elapsed

\* lines 194, 203, 211: display_seconds
DisplaySeconds ==
    IF mode = 2 THEN IntSeconds(Elapsed) ELSE Max(0, IntSeconds(Remaining))

\* lines 192, 195, 200, 204: remaining <= 0, a test that only modes 0 and 1 make
TimeIsUp_anyMode == Remaining <= 0
TimeIsUp == mode # 2 /\ Remaining <= 0

\* what one publication appends to the history of the cycle
Published(v) == IF pubs # <<>> /\ pubs[Len(pubs)] = v THEN pubs ELSE Append(pubs, v)

\* lines 192-217: compute, then either finish (remaining <= 0: write the
\* formatted zero, running = False, break) or publish and time.sleep(0.1)
Loop_l192 ==
    /\ pc = "l192"
    /\ IF TimeIsUp
       THEN /\ output_file' = format_time(0, display)
            /\ pubs' = Published(0)
            /\ running' = FALSE
            /\ pc' = "l219"
            /\ UNCHANGED ticked
       ELSE /\ output_file' = format_time(DisplaySeconds, display)
            /\ pubs' = Published(DisplaySeconds)
            /\ pc' = "l184"
            /\ ticked' = FALSE
            /\ UNCHANGED running
    /\ now' = None
    /\ UNCHANGED <<paused, restart_requested, quit_requested, awaiting_confirm,
                   pause_start, total_paused, config, call, target_time, duration,
                   start_time, exit_code, listener, clock, nkeys, lastKey, cycle, snap>>

\* lines 219-221: state.running after if state.quit_requested: running = False
StillRunning_restartRevives ==
    IF quit_requested THEN FALSE ELSE (running \/ restart_requested)
StillRunning == IF quit_requested THEN FALSE ELSE running

\* lines 219-224: if state.quit_requested: state.running = False; then the
\* test of line 162, while state.running
Loop_l219 ==
    /\ pc = "l219"
    /\ running' = StillRunning
    /\ pc' = IF running' THEN "l163" ELSE "l226"
    /\ UNCHANGED <<paused, restart_requested, quit_requested, awaiting_confirm,
                   pause_start, total_paused, config, call, locals, output_file,
                   exit_code, listener, clock, ticked, history>>

\* lines 226-228, then main returns: listener.stop(), exit code 0
Loop_l226 ==
    /\ pc = "l226"
    /\ pc' = "exit"
    /\ exit_code' = 0
    /\ UNCHANGED <<state, config, call, locals, output_file, listener, clock, ticked,
                   history>>

\* lines 353-355 of main: except Exception: print, sys.exit(1)
Main_l353 ==
    /\ pc = "l353"
    /\ pc' = "exit"
    /\ exit_code' = 1
    /\ UNCHANGED <<state, config, call, locals, output_file, listener, clock, ticked,
                   history>>

\* A cycle lasts from the computation of its anchor (line 169) until the loop
\* comes back to the reset of line 163.
InCycle == cycle > 0 /\ pc \notin {"l163", "l164", "l165", "l166", "l169"}

\* --------------------------------------------------- on_press (listener thread)
\* pynput delivers key events one at a time on the listener thread, from
\* listener.start() (line 157) until the process ends.
ListenerRuns == pc # "exit" /\ lpc = "idle" /\ nkeys < MaxKeys

KeyEvent(c) ==
    /\ nkeys' = nkeys + 1
    /\ lastKey' = c
    /\ snap' = IF snap.done THEN NoSnap ELSE snap

\* line 115: char == 'y', and line 121: char == 'n'
IsYes_anyButNo(c) == c # "n"
IsYes(c) == c = "y"

IsNo_anyButYes(c) == c # "y"
IsNo(c) == c = "n"

\* lines 114-124: a confirmation is pending
OnPress_confirm(c) ==
    /\ ListenerRuns
    /\ awaiting_confirm # "none"
    /\ KeyEvent(c)
    /\ IF IsYes(c)
       THEN /\ restart_requested' =
                   IF awaiting_confirm = "restart" THEN TRUE ELSE restart_requested
            /\ quit_requested' =
                   IF awaiting_confirm = "quit" THEN TRUE ELSE quit_requested
            /\ awaiting_confirm' = "none"
       ELSE IF IsNo(c)
       THEN /\ awaiting_confirm' = "none"
            /\ UNCHANGED <<restart_requested, quit_requested>>
       ELSE UNCHANGED <<restart_requested, quit_requested, awaiting_confirm>>
    /\ UNCHANGED <<running, paused, pause_start, total_paused, config, call, pc, locals,
                   output_file, exit_code, listener, clock, ticked, cycle, pubs>>

\* lines 126-128 and 142-144: 'r' and 'q' ask for a confirmation; lines 126-144
\* fall through for any other key but 'p'
OnPress_key(c) ==
    /\ ListenerRuns
    /\ awaiting_confirm = "none"
    /\ c # "p"
    /\ KeyEvent(c)
    /\ awaiting_confirm' =
           IF c = "r" THEN "restart" ELSE IF c = "q" THEN "quit" ELSE awaiting_confirm
    /\ UNCHANGED <<running, paused, restart_requested, quit_requested, pause_start,
                   total_paused, config, call, pc, locals, output_file, exit_code,
                   listener, clock, ticked, cycle, pubs>>

\* lines 129-130: 'p', if state.paused
OnPress_p ==
    /\ ListenerRuns
    /\ awaiting_confirm = "none"
    /\ KeyEvent("p")
    /\ lpc' = IF paused THEN "l132" ELSE "l139"
    /\ UNCHANGED <<state, config, call, pc, locals, output_file, exit_code, l_now, l_sum,
                   clock, ticked, cycle, pubs>>

\* line 132: if state.pause_start
OnPress_l132 ==
    /\ lpc = "l132"
    /\ pc # "exit"
    /\ lpc' = IF pause_start # None THEN "l133" ELSE "l135"
    /\ UNCHANGED <<state, config, call, pc, locals, output_file, exit_code, l_now, l_sum,
                   clock, ticked, history>>

\* line 133: (datetime.now() - state.pause_start).total_seconds()
PausedFor_wholeSeconds(t1, t0) == IntSeconds(t1 - t0) * TicksPerSecond
PausedFor(t1, t0) == t1 - t0

\* line 133, evaluation: state.total_paused + the paused time;
\* datetime - None raises TypeError, which ends the listener thread.
OnPress_l133 ==
    /\ lpc = "l133"
    /\ pc # "exit"
    /\ IF pause_start = None
       THEN /\ lpc' = "dead"
            /\ UNCHANGED <<l_now, l_sum>>
       ELSE /\ l_now' = clock
            /\ l_sum' = total_paused + PausedFor(clock, pause_start)
            /\ lpc' = "l133s"
    /\ UNCHANGED <<state, config, call, pc, locals, output_file, exit_code, clock, ticked,
                   history>>

\* line 133, the store of the sum into state.total_paused
OnPress_l133s ==
    /\ lpc = "l133s"
    /\ pc # "exit"
    /\ total_paused' = l_sum
    /\ l_sum' = 0
    /\ lpc' = "l134"
    /\ UNCHANGED <<running, paused, restart_requested, quit_requested,
                   awaiting_confirm, pause_start, config, call, pc, locals, output_file,
                   exit_code, l_now, clock, ticked, history>>

\* line 134: state.pause_start = None
OnPress_l134 ==
    /\ lpc = "l134"
    /\ pc # "exit"
    /\ pause_start' = None
    /\ lpc' = "l135"
    /\ UNCHANGED <<running, paused, restart_requested, quit_requested,
                   awaiting_confirm, total_paused, config, call, pc, locals, output_file,
                   exit_code, l_now, l_sum, clock, ticked, history>>

\* line 135: state.paused = False
OnPress_l135 ==
    /\ lpc = "l135"
    /\ pc # "exit"
    /\ paused' = FALSE
    /\ lpc' = "idle"
    /\ snap' = IF snap.t0 # None /\ InCycle
               THEN [snap EXCEPT !.t1 = l_now, !.done = TRUE]
               ELSE NoSnap
    /\ l_now' = None
    /\ UNCHANGED <<running, restart_requested, quit_requested, awaiting_confirm,
                   pause_start, total_paused, config, call, pc, locals, output_file,
                   exit_code, l_sum, clock, ticked, nkeys, lastKey, cycle, pubs>>

\* line 139: state.pause_start = datetime.now()
OnPress_l139 ==
    /\ lpc = "l139"
    /\ pc # "exit"
    /\ pause_start' = clock
    /\ lpc' = "l140"
    /\ snap' = IF InCycle
               THEN [t0 |-> clock, t1 |-> None, tp |-> total_paused,
                     start |-> start_time, target |-> target_time, done |-> FALSE]
               ELSE NoSnap
    /\ UNCHANGED <<running, paused, restart_requested, quit_requested,
                   awaiting_confirm, total_paused, config, call, pc, locals, output_file,
                   exit_code, l_now, l_sum, clock, ticked, nkeys, lastKey, cycle, pubs>>

\* line 140: state.paused = True
OnPress_l140 ==
    /\ lpc = "l140"
    /\ pc # "exit"
    /\ paused' = TRUE
    /\ lpc' = "idle"
    /\ UNCHANGED <<running, restart_requested, quit_requested, awaiting_confirm,
                   pause_start, total_paused, config, call, pc, locals, output_file,
                   exit_code, l_now, l_sum, clock, ticked, history>>

\* ------------------------------------------------------------ specification
TimerLoop ==
    \/ Loop_l163 \/ Loop_l164 \/ Loop_l165 \/ Loop_l166 \/ Loop_l169
    \/ Loop_l184 \/ Loop_l185 \/ Loop_l190 \/ Loop_l192
    \/ Loop_l219 \/ Loop_l226

InputController ==
    \/ \E c \in Keys : OnPress_confirm(c)
    \/ \E c \in Keys : OnPress_key(c)
    \/ OnPress_p
    \/ OnPress_l132 \/ OnPress_l133 \/ OnPress_l133s \/ OnPress_l134
    \/ OnPress_l135 \/ OnPress_l139 \/ OnPress_l140

Next == TimerLoop \/ InputController \/ Tick

Spec == Init /\ [][Next]_vars

\* The main thread is always scheduled again: time.sleep returns and no
\* statement of run_timer blocks, so the loop takes its next step. Nothing
\* is assumed of the listener thread (the user may never press a key) nor of
\* the clock.
FairSpec == Spec /\ WF_vars(TimerLoop)

\* ------------------------------------------- the run loop with failing I/O
\* write_output (lines 100-103) raises OSError: open() fails and the file keeps
\* its content, or the write fails after open() truncated the file. The
\* exception leaves run_timer for the except clause of main (line 353).
WriteFails ==
    /\ pc = "l192"
    /\ pc' = "l353"
    /\ output_file' \in {output_file, <<>>}
    /\ now' = None
    /\ UNCHANGED <<state, config, call, target_time, duration, start_time,
                   exit_code, listener, clock, ticked, history>>

\* main in CLI mode hands time_str to run_timer unchecked (lines 335-339).
FaultInit ==
    /\ \E c \in Configs : mode = c[1] /\ display = c[2]
    /\ time_str \in (IF mode = 2 THEN {<<0>>} ELSE TimeStrs \cup BadTimeStrs)
    /\ TimerInit
    /\ NoCall

FaultNext == Next \/ WriteFails \/ Main_l353

FaultSpec == FaultInit /\ [][FaultNext]_vars

\* ------------------------------------------------ format_time, called once
FmtFields == {0, 1, 9, 10, 59}
FmtSeconds ==
    {h * 3600 + m * 60 + sec : h \in 0..MaxFmtHours, m \in FmtFields, sec \in FmtFields}
        \cup {-1, -3600}

FmtInit ==
    /\ fmt_seconds \in FmtSeconds
    /\ fmt_mode \in {0, 1, 2}
    /\ fmt_out = <<>>
    /\ fmt_done = FALSE
    /\ mode = 2 /\ display = fmt_mode /\ time_str = <<0>>
    /\ TimerInit

FmtCall ==
    /\ ~fmt_done
    /\ fmt_out' = format_time(fmt_seconds, fmt_mode)
    /\ fmt_done' = TRUE
    /\ UNCHANGED <<fmt_seconds, fmt_mode, timer>>

FmtNext == FmtCall

FmtSpec == FmtInit /\ [][FmtNext]_vars

\* ------------------------------------------------------------------ claims
KeyPressed == nkeys' = nkeys + 1

\* C1: confirmation gating of restart. With no confirmation pending, 'r' sets
\* awaiting_confirm to restart; with restart pending, a key other than y/n
\* leaves it pending and requests nothing, 'n' clears it and requests nothing,
\* 'y' sets restart_requested and clears it; and restart_requested (resp.
\* quit_requested) only ever becomes true by a 'y' pressed while a restart
\* (resp. a quit) is pending.
ConfirmationGating ==
    [][ /\ (KeyPressed /\ awaiting_confirm = "none" /\ lastKey' = "r")
            => awaiting_confirm' = "restart"
        /\ (KeyPressed /\ awaiting_confirm = "restart" /\ lastKey' \notin {"y", "n"})
            => (awaiting_confirm' = "restart" /\ UNCHANGED restart_requested)
        /\ (KeyPressed /\ awaiting_confirm = "restart" /\ lastKey' = "n")
            => (awaiting_confirm' = "none" /\ UNCHANGED restart_requested)
        /\ (KeyPressed /\ awaiting_confirm = "restart" /\ lastKey' = "y")
            => (awaiting_confirm' = "none" /\ restart_requested')
        /\ (~restart_requested /\ restart_requested')
            => (KeyPressed /\ lastKey' = "y" /\ awaiting_confirm = "restart")
        /\ (~quit_requested /\ quit_requested')
            => (KeyPressed /\ lastKey' = "y" /\ awaiting_confirm = "quit")
      ]_vars

\* C1 witness: three keys have been pressed, the last one a 'y' that confirmed a
\* pending restart, and the restart is requested.
ConfirmationGatingWitness ==
    /\ nkeys = 3 /\ lastKey = "y"
    /\ restart_requested /\ ~quit_requested
    /\ awaiting_confirm = "none"

\* C2: while a confirmation is pending, a key other than y/n changes neither
\* paused, pause_start, total_paused, restart_requested, quit_requested nor the
\* pending action.
PendingIgnoresOtherKeys ==
    [][ (KeyPressed /\ awaiting_confirm # "none" /\ lastKey' \notin {"y", "n"})
        => UNCHANGED <<paused, pause_start, total_paused, restart_requested,
                       quit_requested, awaiting_confirm>>
      ]_vars

\* C2 witness: 'p' was the last key and a quit is still pending, so the 'p'
\* arrived while it was pending; the listener has returned.
PendingIgnoresOtherKeysWitness ==
    /\ lastKey = "p" /\ awaiting_confirm = "quit" /\ lpc = "idle"
    /\ ~paused /\ pause_start = None


\* C3: pause_start is non-null iff paused. The claim is for every reachable
\* state; it is stated here for the states where the listener is between two
\* key events and the loop is not inside its reset (lines 163-166), which the
\* claim covers whatever one makes of the states inside an update.
Quiescent == lpc = "idle" /\ pc \notin {"l164", "l165", "l166"}

PauseStartIffPaused == Quiescent => (pause_start # None <=> paused)


\* C4: pause/resume round trip. When a 'p' at t0 and the next 'p' at t1 both ran
\* within one cycle, total_paused has grown by exactly t1 - t0, the anchor of the
\* cycle (start_time, target_time) is what it was, paused is false and
\* pause_start is None.
PauseResumeRoundTrip ==
    snap.done =>
        /\ total_paused = snap.tp + (snap.t1 - snap.t0)
        /\ start_time = snap.start /\ target_time = snap.target
        /\ ~paused /\ pause_start = None

\* C4 witness: a round trip that lasted a whole second or more has completed.
PauseResumeRoundTripWitness ==
    /\ snap.done /\ snap.t1 - snap.t0 >= TicksPerSecond
    /\ total_paused >= TicksPerSecond /\ lpc = "idle"

\* C5: mode 0 ignores pause. In mode 0 the loop never takes the paused branch of
\* line 185, and what a tick writes is format_time of max(0, int(target - now)),
\* whatever paused, pause_start and total_paused are.
ToTargetIgnoresPause ==
    [][ mode = 0 =>
          /\ (pc = "l185" /\ pc' # "l185") => pc' = "l190"
          /\ (pc = "l192" /\ pc' \in {"l184", "l219"}) =>
                output_file' =
                    format_time(Max(0, IntSeconds(target_time - now)), display)
      ]_vars

\* C5 witness: in mode 0 the loop is about to compute and publish, in a tick
\* whose time was read a clock unit or more after the timer was paused.
ToTargetIgnoresPauseWitness ==
    /\ mode = 0 /\ pc = "l192" /\ paused /\ lpc = "idle"
    /\ pause_start # None /\ now > pause_start /\ target_time > now


\* C6: FromDuration end to end. In mode 1 with duration D and no key event, the
\* values written are D, then D-1, ..., down to 0, in that order, and the
\* process ends with running false and the file holding format_time(0).
FromDurationCountdown ==
    (mode = 1 /\ nkeys = 0) =>
        /\ pubs # <<>> => pubs[1] = parse_time(time_str)
        /\ \A i \in 1..(Len(pubs) - 1) : pubs[i + 1] = pubs[i] - 1
        /\ pc = "exit" =>
              /\ ~running /\ exit_code = 0
              /\ pubs # <<>> /\ pubs[Len(pubs)] = 0
              /\ output_file = format_time(0, display)

\* C7: CountUp monotonicity. In mode 2, within one cycle, the values written
\* start at the formatted zero and never decrease, whatever 'p' keys arrive.
Shown(v) == Max(0, v)

CountUpMonotone ==
    mode = 2 =>
        /\ pubs # <<>> => format_time(pubs[1], display) = format_time(0, display)
        /\ \A i \in 1..(Len(pubs) - 1) : Shown(pubs[i]) <= Shown(pubs[i + 1])

\* C8: a failure raised in the run loop ends the process with a non-zero exit
\* code, and the file is empty when it ends.
ErrorClearsSink ==
    /\ pc = "l353" => ENABLED Main_l353
    /\ exit_code \notin {None, 0} => output_file = <<>>


\* Reading a formatted string back: the value of a two-digit field, the
\* positions of the colons, the hours field (what precedes the first of two
\* colons) and whether it is zero-padded (a leading 0 before another digit).
DigitValue(ch) ==
    CASE ch = "0" -> 0 [] ch = "1" -> 1 [] ch = "2" -> 2 [] ch = "3" -> 3
      [] ch = "4" -> 4 [] ch = "5" -> 5 [] ch = "6" -> 6 [] ch = "7" -> 7
      [] ch = "8" -> 8 [] ch = "9" -> 9 [] OTHER -> None

TwoDigits(out, i) ==
    IF DigitValue(out[i]) = None \/ DigitValue(out[i + 1]) = None
    THEN None
    ELSE 10 * DigitValue(out[i]) + DigitValue(out[i + 1])

IsHHMMSS(out, x) ==
    /\ Len(out) = 8
    /\ out[3] = ":" /\ out[6] = ":"
    /\ TwoDigits(out, 1) = x \div 3600
    /\ TwoDigits(out, 4) = (x % 3600) \div 60
    /\ TwoDigits(out, 7) = x % 60

Colons(out) == {i \in 1..Len(out) : out[i] = ":"}
HasHoursField(out) == Cardinality(Colons(out)) = 2
HoursPadded(out) == HasHoursField(out) /\ out[1] = "0" /\ out[2] # ":"

NeverPadsHours == fmt_done => ~HoursPadded(fmt_out)

\* C10 amended: in display modes 0 and 1 format_time never zero-pads the hours
\* field (it is there exactly when hours > 0); in display mode 2 the hours
\* field is zero-padded to 2 digits.
PadsHoursOnlyInFullFormat ==
    fmt_done =>
        LET hours == (IF fmt_seconds < 0 THEN 0 ELSE fmt_seconds) \div 3600
        IN  IF fmt_mode \in {0, 1}
            THEN /\ ~HoursPadded(fmt_out)
                 /\ HasHoursField(fmt_out) <=> hours > 0
            ELSE /\ HasHoursField(fmt_out)
                 /\ hours < 10 => HoursPadded(fmt_out)

\* C10 witness: a one-digit number of hours has been formatted in mode 1, the
\* mode that pads every field but the hours.
PadsHoursWitness ==
    /\ fmt_done /\ fmt_mode = 1 /\ fmt_seconds = 9 * 3600 + 60 + 9
    /\ fmt_out = <<"9", ":", "0", "1", ":", "0", "9">>

RestartLoopsBack ==
    [][ /\ (pc # "l219" /\ pc' = "l219" /\ restart_requested /\ ~quit_requested)
            => running'
        /\ (pc = "l219" /\ pc' # "l219" /\ restart_requested /\ ~quit_requested
                /\ running)
            => pc' = "l163"
      ]_vars

\* C13: cycle reset. When the anchor of a cycle is computed, restart_requested
\* is false, total_paused is 0, pause_start is None and paused is false, however
\* the statements of on_press interleave with the reset of lines 163-166. It is
\* stated for the pause accounting (the three fields that on_press writes at
\* lines 133-140) and for the step that ends the reset (line 166), after which
\* the anchor computation of lines 169-180 follows at once, so that a key
\* handled wholly after the reset does not count against it.
ResetHoldsAtAnchor ==
    [][ (pc = "l166" /\ pc' = "l169")
        => (total_paused' = 0 /\ pause_start' = None /\ ~paused')
      ]_vars

\* C14: paused ticks publish nothing. In modes 1 and 2 a tick that reads
\* paused = true at line 185 writes nothing to the file, changes no field of
\* TimerState and no local of run_timer, and goes back to line 184; and the
\* file is only written by a tick that read paused = false at line 185 (line
\* 190 is only reached from line 185 with paused false, the write only from
\* line 190). So from a tick that found the timer paused on, the file keeps its
\* content until a tick finds paused false again (after a resume or the reset
\* of a restart) or the loop ends.
PausedTickPublishesNothing ==
    [][ mode # 0 =>
          /\ (pc = "l185" /\ paused /\ pc' # "l185")
                => (pc' = "l184" /\ UNCHANGED <<state, locals, output_file>>)
          /\ (pc # "l190" /\ pc' = "l190") => (pc = "l185" /\ ~paused)
          /\ (pc # "l192" /\ pc' = "l192") => pc = "l190"
          /\ output_file' # output_file => pc = "l192"
      ]_vars

\* C14 witness: in mode 1 the timer has been paused for a second or more, the
\* loop has skipped a tick and slept since the clock last advanced, and the
\* file still holds the value published before the pause.
PausedTickPublishesNothingWitness ==
    /\ mode = 1 /\ paused /\ lpc = "idle" /\ pc = "l184" /\ ~ticked
    /\ pause_start # None /\ clock >= pause_start + TicksPerSecond
    /\ output_file = format_time(parse_time(time_str), display)
    /\ parse_time(time_str) > 0

\* C15: count-up has no terminal condition from its value. In mode 2 running is
\* false only when quit_requested is true, the inner loop has ended (the loop
\* is at line 219) only when a quit or a restart is requested, and the loop has
\* left the outer loop only when quit_requested is true.
CountUpEndsOnlyByKey ==
    mode = 2 =>
        /\ ~running => quit_requested
        /\ pc = "l219" => (quit_requested \/ restart_requested)
        /\ pc \in {"l226", "exit"} => (quit_requested /\ ~running)

\* C15 witness: in mode 2 the count went up by a second or more, and the
\* process ended after a quit was confirmed.
CountUpEndsOnlyByKeyWitness ==
    /\ mode = 2 /\ pc = "exit" /\ ~running /\ quit_requested
    /\ Len(pubs) >= 2 /\ pubs[Len(pubs)] >= 1

\* C16: natural completion ends the session like quit. In modes 0 and 1 the
\* tick that finds remaining <= 0 writes format_time(0), sets running to false
\* and ends the inner loop; and once running is false it stays false, no cycle
\* is started, the file is not written again and the loop only goes on to stop,
\* whatever keys are pressed.
NaturalCompletionEnds ==
    [][ /\ (pc = "l192" /\ pc' # "l192" /\ mode \in {0, 1} /\ Remaining <= 0)
            => (output_file' = format_time(0, display) /\ ~running' /\ pc' = "l219")
        /\ ~running
            => (~running' /\ cycle' = cycle /\ output_file' = output_file
                /\ pc' \in {"l219", "l226", "exit"})
      ]_vars

\* C16 witness: a countdown from 1 second completed, a restart was confirmed in
\* its last tick or after it, and the process ended in the same cycle with the
\* formatted zero in the file.
NaturalCompletionEndsWitness ==
    /\ mode = 1 /\ time_str = <<1>> /\ pc = "exit" /\ ~running
    /\ ~quit_requested /\ restart_requested /\ cycle = 1
    /\ output_file = format_time(0, display)

\* C17: in mode 1 the elapsed time a tick computes (line 201) is never
\* negative and the value it publishes never exceeds the configured duration,
\* in every cycle and however pause, resume and restart keys interleave with
\* the loop.
ElapsedWithinDuration ==
    mode = 1 =>
        /\ pc = "l192" => Elapsed >= 0
        /\ \A i \in 1..Len(pubs) : pubs[i] <= parse_time(time_str)

====
